---- MODULE Spec2Model ----
(***************************************************************************)
(* A model of packages/store/src/createStore.tsx: one store created by     *)
(* createStore(initialState), the extensions registered on it with extend, *)
(* the local store instances created by rendering LocalProvider, and the   *)
(* accessors (get / set / assign, computed, actions) of every instance.    *)
(***************************************************************************)
EXTENDS Integers, Sequences, FiniteSets, TLC

\* Numbers held in the state range over 0..MaxVal.
MaxVal == 1
\* At most MaxExt calls of extend.
MaxExt == 2

(***************************************************************************)
(* JavaScript values.  Every value carries its type tag t; n is the number *)
(* of a "number", a the elements of an "array", o the own properties of an *)
(* "object" (a function from property names to values).                    *)
(***************************************************************************)
EmptyProps == [k \in {} |-> 0]

JSValue(t, n, a, o) == [t |-> t, n |-> n, a |-> a, o |-> o]

Undefined == JSValue("undefined", 0, <<>>, EmptyProps)

Null == JSValue("null", 0, <<>>, EmptyProps)

NaN == JSValue("nan", 0, <<>>, EmptyProps)

Num(n) == JSValue("number", n, <<>>, EmptyProps)

Arr(a) == JSValue("array", 0, a, EmptyProps)

Obj(o) == JSValue("object", 0, <<>>, o)

\* value instanceof Object && !(value instanceof Array)
isObject(value) ==
    /\ value.t \in {"object", "array"}
    /\ ~(value.t = "array")

\* a ?? b
Coalesce(a, b) == IF a.t \in {"undefined", "null"} THEN b ELSE a

\* A parameter default: `param = d` takes d only when the argument is undefined.
DefaultParam(arg, d) == IF arg.t = "undefined" THEN d ELSE arg

\* The property name of an array index.
IndexKey(i) == CASE i = 1 -> "0" [] i = 2 -> "1" [] OTHER -> "2"

\* The own enumerable properties a spread or Object.assign copies from a value.
OwnProps(v) ==
    CASE v.t = "object" -> v.o
      [] v.t = "array" ->
           [k \in {IndexKey(i) : i \in DOMAIN v.a} |->
               Num(v.a[CHOOSE i \in DOMAIN v.a : IndexKey(i) = k])]
      [] OTHER -> EmptyProps

\* Object.assign(target, source) on property maps: the source's properties win.
ObjectAssign(target, source) ==
    [k \in DOMAIN target \cup DOMAIN source |->
        IF k \in DOMAIN source THEN source[k] ELSE target[k]]

\* { ...a, ...b }
Spread(a, b) == Obj(ObjectAssign(OwnProps(a), OwnProps(b)))

\* a + b and a * b on numbers; anything else is outside the numbers modelled.
Times(a, b) == IF a.t = "number" /\ b.t = "number" THEN Num(a.n * b.n) ELSE NaN

Plus(a, b) == IF a.t = "number" /\ b.t = "number" THEN Num(a.n + b.n) ELSE NaN

(***************************************************************************)
(* The stores.  Store 0 is the global store (api); a local store instance  *)
(* is named after the LocalProvider element that created it.               *)
(***************************************************************************)
GlobalStore == 0

Providers == {1, 2}

StoreIds == {GlobalStore} \cup Providers

NoStore == -1

\* The initial states createStore is called with.
ObjectState(c, p) == Obj([count |-> Num(c), parent |-> Obj([count |-> Num(p)])])

InitialStates == {ObjectState(0, 0), Num(0), Arr(<<0>>)}

\* The builders passed to extend: the computed and the actions of the tests.
Builders == {"computed", "actions"}

VARIABLES
    initialState,      \* the initialState createStore was called with
    extensions,        \* the registered builders, in order
    context,           \* provider -> the store its LocalContext.Provider holds
    immerStoreApi,     \* store -> the underlying store its methods act on
    innerInitialState, \* store -> the initialState of its createInnerStore call
    state,             \* underlying store -> its current state
    members,           \* store -> the members its extensions added
    applied,           \* store -> the builder calls made on it, in order
    last               \* the last operation and what it returned or threw

vars == <<initialState, extensions, context, immerStoreApi,
          innerInitialState, state, members, applied, last>>

NoMembers == [k \in {} |-> 0]

NoOp == [op |-> "none", store |-> NoStore, caller |-> NoStore, method |-> "",
         ret |-> Undefined, threw |-> ""]

(***************************************************************************)
(* Paths into the state tree.                                              *)
(***************************************************************************)
RECURSIVE GetPath(_, _)
\* The value at a path: the chain of property reads store.a.b.get() makes.
GetPath(v, path) ==
    IF path = <<>> THEN v
    ELSE IF v.t = "object" /\ Head(path) \in DOMAIN v.o
         THEN GetPath(v.o[Head(path)], Tail(path))
         ELSE Undefined

RECURSIVE SetPath(_, _, _)
\* The immutable update of one path: every object on the way is copied with
\* the one property replaced, everything else is kept.
SetPath(v, path, x) ==
    IF path = <<>> THEN x
    ELSE Obj([k \in DOMAIN v.o \cup {Head(path)} |->
                IF k = Head(path)
                THEN SetPath(GetPath(v, <<k>>), Tail(path), x)
                ELSE v.o[k]])

RECURSIVE PathsOf(_)
\* The nested paths of a value: one accessor node is generated for each.
PathsOf(v) ==
    IF v.t # "object" THEN {}
    ELSE UNION {{<<k>>} \cup {<<k>> \o p : p \in PathsOf(v.o[k])} : k \in DOMAIN v.o}

\* The updater functions passed to a property's set: (prev) => prev + 1.
Updaters == {"inc"}

ApplyUpdater(fn, prev) == IF fn = "inc" THEN Plus(prev, Num(1)) ELSE prev

(***************************************************************************)
(* createInnerStore and the methods of a store instance.                   *)
(***************************************************************************)
\* immerStoreApi.setState(newValue): the state is replaced by the value.
ImmerSetValue(st, id, value) == [st EXCEPT ![id] = value]

\* immerStoreApi.setState((draft) => { Object.assign(draft, partial) }): the
\* recipe runs on a draft of the current state; a state that is no object has
\* no draft, and the recipe (which returns nothing) leaves it as it is.
ImmerSetAssignRecipe(st, id, partial) ==
    IF st[id].t = "object"
    THEN [st EXCEPT ![id] = Obj(ObjectAssign(st[id].o, OwnProps(partial)))]
    ELSE IF st[id].t = "array" /\ partial.t = "array"
    THEN [st EXCEPT ![id] =
            Arr([i \in 1..(IF Len(partial.a) > Len(@.a) THEN Len(partial.a) ELSE Len(@.a)) |->
                    IF i <= Len(partial.a) THEN partial.a[i] ELSE @.a[i]])]
    ELSE st

\* A createInnerStore that makes no store of its own: the methods it returns
\* act on the global store.
createInnerStoreShared(id, init) ==
    [immerStoreApi |-> GlobalStore, initialState |-> init, state |-> state]

\* createInnerStore(initialState): a fresh underlying store holding initialState,
\* and the methods bound to it.
createInnerStore(id, init) ==
    [immerStoreApi |-> id, initialState |-> init,
     state |-> ImmerSetValue(state, id, init)]

\* store.get()
getState(s) == state[immerStoreApi[s]]

\* store.set(newValue)
setState(s, value) == ImmerSetValue(state, immerStoreApi[s], value)

\* An assign that passes the partial state on as set does, without merging.
assignReplaces(s, partial) == ImmerSetValue(state, immerStoreApi[s], partial)

\* An assign that merges whatever the initial state is.
assignAlwaysMerges(s, partial) == ImmerSetAssignRecipe(state, immerStoreApi[s], partial)

\* store.assign(partial)
assign(s, partial) ==
    IF isObject(innerInitialState[s])
    THEN ImmerSetAssignRecipe(state, immerStoreApi[s], partial)
    ELSE ImmerSetValue(state, immerStoreApi[s], partial)

\* The accessor nodes generateInnerSelectors makes for a store instance.
AccessorPaths(s) == PathsOf(innerInitialState[s])

\* store.<path>.get()
InnerGet(s, path) == GetPath(getState(s), path)

\* A set of a path that replaces the object holding the property by an object
\* with that one property.
InnerSetValueClobbers(st, s, path, fn, value) ==
    LET id == immerStoreApi[s]
        next == IF fn = "" THEN value ELSE ApplyUpdater(fn, GetPath(st[id], path))
    IN  [st EXCEPT ![id] = Obj([k \in {Head(path)} |-> SetPath(Undefined, Tail(path), next)])]

\* store.<path>.set(value) and store.<path>.set((prev) => next)
InnerSetValue(st, s, path, fn, value) ==
    LET id == immerStoreApi[s]
        next == IF fn = "" THEN value ELSE ApplyUpdater(fn, GetPath(st[id], path))
    IN  [st EXCEPT ![id] = SetPath(st[id], path, next)]

(***************************************************************************)
(* Extensions.                                                             *)
(***************************************************************************)
\* The members a builder returns when called with a store: closures over it.
BuilderMembers(b, store) ==
    IF b = "computed"
    THEN [doubled |-> [kind |-> "computed", bound |-> store, by |-> b]]
    ELSE [increment |-> [kind |-> "action", bound |-> store, by |-> b],
          decrement |-> [kind |-> "action", bound |-> store, by |-> b]]

RECURSIVE ReduceExtensions(_, _, _, _, _)
\* extensions.reduce((acc, ext) => Object.assign(acc, ext(acc)), store)
ReduceExtensions(exts, i, store, acc, log) ==
    IF i > Len(exts) THEN [members |-> acc, applied |-> log]
    ELSE ReduceExtensions(exts, i + 1, store,
            ObjectAssign(acc, BuilderMembers(exts[i], store)),
            Append(log, [builder |-> exts[i], index |-> i, seen |-> DOMAIN acc]))

RECURSIVE ReduceRightExtensions(_, _, _, _, _)
\* extensions.reduceRight(...): the builders applied last to first.
ReduceRightExtensions(exts, i, store, acc, log) ==
    IF i < 1 THEN [members |-> acc, applied |-> log]
    ELSE ReduceRightExtensions(exts, i - 1, store,
            ObjectAssign(acc, BuilderMembers(exts[i], store)),
            Append(log, [builder |-> exts[i], index |-> i, seen |-> DOMAIN acc]))

applyExtensionsReversed(exts, store, acc, log) ==
    ReduceRightExtensions(exts, Len(exts), store, acc, log)

\* An applyExtensions that calls every builder with the global store.
applyExtensionsToGlobal(exts, store, acc, log) ==
    ReduceExtensions(exts, 1, GlobalStore, acc, log)

\* An applyExtensions that calls only the builder registered last.
applyExtensionsNewestOnly(exts, store, acc, log) ==
    ReduceExtensions(exts, IF exts = <<>> THEN 1 ELSE Len(exts), store, acc, log)

\* applyExtensions(store), for a store that carries the members acc
applyExtensions(exts, store, acc, log) == ReduceExtensions(exts, 1, store, acc, log)

\* Where the count of the tests' computed and actions lives: store.count of an
\* object state, the store itself otherwise.
CountPath == IF isObject(initialState) THEN <<"count">> ELSE <<>>

\* doubled: () => store.count.use() * 2, read through store s
ComputedGet(s, name) == Times(InnerGet(members[s][name].bound, CountPath), Num(2))

\* A computed accessor built like the accessor of a state path.
AccessorMethodsWritable(kind) == {"get", "use", "set", "assign"}

\* The methods an accessor exposes.
AccessorMethods(kind) ==
    IF kind = "computed" THEN {"get", "use"} ELSE {"get", "use", "set", "assign"}

(***************************************************************************)
(* LocalProvider and useLocalStore.                                        *)
(***************************************************************************)
\* A merge over the global store's current state instead of its initial state.
MergedWithCurrentState(initialValue) ==
    LET localInitialValue == DefaultParam(initialValue, Obj(EmptyProps))
    IN  IF isObject(initialState)
        THEN Spread(getState(GlobalStore), localInitialValue)
        ELSE Coalesce(localInitialValue, initialState)

\* mergedInitialState of a LocalProvider rendered with initialValue
MergedInitialState(initialValue) ==
    LET localInitialValue == DefaultParam(initialValue, Obj(EmptyProps))
    IN  IF isObject(initialState)
        THEN Spread(initialState, localInitialValue)
        ELSE Coalesce(localInitialValue, initialState)

\* A component is named after the provider it is rendered directly under;
\* NoProvider names a component with no LocalProvider above it.
NoProvider == 0

Callers == Providers \cup {NoProvider}

\* The LocalProviders above a component, the closest first: provider 1 is
\* rendered at the top of the tree and provider 2 inside provider 1.
EnclosingProviders(c) ==
    IF c = NoProvider THEN <<>>
    ELSE IF c = 2 THEN <<2, 1>>
    ELSE <<c>>

\* React.useContext(LocalContext): the value of the closest provider, or the
\* context's default (null).
useContext(c) ==
    IF EnclosingProviders(c) = <<>> THEN NoStore
    ELSE context[Head(EnclosingProviders(c))]

\* A useLocalStore that falls back to the global store.
useLocalStoreOrGlobal(c) ==
    LET localStore == useContext(c)
    IN  [ret |-> IF localStore # NoStore THEN localStore ELSE GlobalStore, threw |-> ""]

\* useLocalStore()
useLocalStore(c) ==
    LET localStore == useContext(c)
    IN  IF localStore # NoStore
        THEN [ret |-> localStore, threw |-> ""]
        ELSE [ret |-> NoStore,
              threw |-> "useLocalStore must be used within a LocalProvider"]

Init ==
    /\ initialState \in InitialStates
    /\ extensions = <<>>
    /\ context = [p \in Providers |-> NoStore]
    /\ immerStoreApi = [s \in StoreIds |-> IF s = GlobalStore THEN GlobalStore ELSE NoStore]
    /\ innerInitialState = [s \in StoreIds |-> IF s = GlobalStore THEN initialState ELSE Undefined]
    /\ state = [s \in StoreIds |-> IF s = GlobalStore THEN initialState ELSE Undefined]
    /\ members = [s \in StoreIds |-> NoMembers]
    /\ applied = [s \in StoreIds |-> <<>>]
    /\ last = NoOp

(***************************************************************************)
(* The inputs of the operations.                                           *)
(***************************************************************************)
Vals == 0..MaxVal

\* The initialValue props a LocalProvider is rendered with (Undefined: none).
InitialValues ==
    {Undefined, Null} \cup
    CASE initialState.t = "object" ->
           {Obj([count |-> Num(MaxVal)]), Obj([parent |-> Obj([count |-> Num(MaxVal)])])}
      [] initialState.t = "array" -> {Arr(<<MaxVal>>)}
      [] OTHER -> {Num(MaxVal)}

\* The whole states passed to store.set.
SetValues ==
    CASE initialState.t = "object" -> {ObjectState(0, 0), ObjectState(MaxVal, MaxVal)}
      [] initialState.t = "array" -> {Arr(<<v>>) : v \in Vals} \cup {Arr(<<>>)}
      [] OTHER -> {Num(v) : v \in Vals}

\* The partial states passed to store.assign.
AssignPartials ==
    CASE initialState.t = "object" ->
           {Obj([count |-> Num(MaxVal)]), Obj([parent |-> Obj([count |-> Num(MaxVal)])]),
            ObjectState(0, MaxVal)}
      [] initialState.t = "array" -> {Arr(<<v>>) : v \in Vals}
      [] OTHER -> {Num(v) : v \in Vals}

\* The values passed to the set of the accessor of a path.
ValuesAt(path) ==
    IF path = <<"parent">> THEN {Obj([count |-> Num(MaxVal)])}
    ELSE {Num(0), Num(MaxVal)}

\* The store instances that exist.
Live(s) == immerStoreApi[s] # NoStore

(***************************************************************************)
(* The operations.                                                         *)
(***************************************************************************)
\* api.extend(builder)
Extend(b) ==
    /\ Len(extensions) < MaxExt
    /\ extensions' = Append(extensions, b)
    /\ LET extendedStore == applyExtensions(Append(extensions, b), GlobalStore,
                                            members[GlobalStore], applied[GlobalStore])
       IN  /\ members' = [members EXCEPT ![GlobalStore] = extendedStore.members]
           /\ applied' = [applied EXCEPT ![GlobalStore] = extendedStore.applied]
    /\ last' = [NoOp EXCEPT !.op = "extend", !.store = GlobalStore]
    /\ UNCHANGED <<initialState, context, immerStoreApi, innerInitialState, state>>

\* A render of the LocalProvider element p with the prop initialValue.
LocalProvider(p, initialValue) ==
    /\ \A i \in DOMAIN EnclosingProviders(p) : i > 1 => context[EnclosingProviders(p)[i]] # NoStore
    /\ LET mergedInitialState == MergedInitialState(initialValue)
           localStore == createInnerStore(p, mergedInitialState)
           localStoreWithExtensions == applyExtensions(extensions, p, NoMembers, <<>>)
       IN  /\ immerStoreApi' = [immerStoreApi EXCEPT ![p] = localStore.immerStoreApi]
           /\ innerInitialState' = [innerInitialState EXCEPT ![p] = localStore.initialState]
           /\ state' = localStore.state
           /\ members' = [members EXCEPT ![p] = localStoreWithExtensions.members]
           /\ applied' = [applied EXCEPT ![p] = localStoreWithExtensions.applied]
    /\ context' = [context EXCEPT ![p] = p]
    /\ last' = [NoOp EXCEPT !.op = "render", !.store = p]
    /\ UNCHANGED <<initialState, extensions>>

\* useLocalStore() called by a component c.
UseLocalStore(c) ==
    /\ \A i \in DOMAIN EnclosingProviders(c) : context[EnclosingProviders(c)[i]] # NoStore
    /\ LET r == useLocalStore(c)
       IN  last' = [NoOp EXCEPT !.op = "useLocalStore", !.caller = c,
                                !.store = r.ret, !.threw = r.threw]
    /\ UNCHANGED <<initialState, extensions, context, immerStoreApi,
                   innerInitialState, state, members, applied>>

\* store.set(value) through the store instance s.
Set(s, value) ==
    /\ Live(s)
    /\ state' = setState(s, value)
    /\ last' = [NoOp EXCEPT !.op = "set", !.store = s]
    /\ UNCHANGED <<initialState, extensions, context, immerStoreApi,
                   innerInitialState, members, applied>>

\* store.assign(partial) through the store instance s.
Assign(s, partial) ==
    /\ Live(s)
    /\ state' = assign(s, partial)
    /\ last' = [NoOp EXCEPT !.op = "assign", !.store = s]
    /\ UNCHANGED <<initialState, extensions, context, immerStoreApi,
                   innerInitialState, members, applied>>

\* store.<path>.set(value), or store.<path>.set(fn) with an updater fn.
InnerSet(s, path, fn, value) ==
    /\ Live(s)
    /\ path \in AccessorPaths(s)
    /\ fn # "" => /\ InnerGet(s, path).t = "number"
                  /\ InnerGet(s, path).n < MaxVal
    /\ state' = InnerSetValue(state, s, path, fn, value)
    /\ last' = [NoOp EXCEPT !.op = "innerSet", !.store = s]
    /\ UNCHANGED <<initialState, extensions, context, immerStoreApi,
                   innerInitialState, members, applied>>

\* store.increment() / store.decrement() called through the store instance s:
\* store.count.set(store.count.get() + 1) on the store the builder was given.
CallAction(s, name) ==
    /\ Live(s)
    /\ name \in DOMAIN members[s]
    /\ members[s][name].kind = "action"
    /\ LET store == members[s][name].bound
           count == InnerGet(store, CountPath)
           step == IF name = "increment" THEN 1 ELSE -1
       IN  /\ count.t = "number"
           /\ count.n + step \in Vals
           /\ state' = InnerSetValue(state, store, CountPath, "", Plus(count, Num(step)))
    /\ last' = [NoOp EXCEPT !.op = "action", !.store = s]
    /\ UNCHANGED <<initialState, extensions, context, immerStoreApi,
                   innerInitialState, members, applied>>

\* A call of a method of the computed accessor store.<name> of instance s.
CallComputed(s, name, method) ==
    /\ Live(s)
    /\ name \in DOMAIN members[s]
    /\ members[s][name].kind = "computed"
    /\ method \in AccessorMethods(members[s][name].kind)
    /\ state' = IF method \in {"set", "assign"}
                THEN ImmerSetValue(state, immerStoreApi[members[s][name].bound], Undefined)
                ELSE state
    /\ last' = [NoOp EXCEPT !.op = "computed", !.store = s, !.method = method,
                            !.ret = ComputedGet(s, name)]
    /\ UNCHANGED <<initialState, extensions, context, immerStoreApi,
                   innerInitialState, members, applied>>

\* The operations on the state of the global store and of one local store: the
\* state tree, its accessors, and the computed and the actions, registered as
\* the tests do (store(...).computed(...).actions(...)).
NextStore ==
    \/ Len(extensions) = 0 /\ Extend("computed")
    \/ Len(extensions) = 1 /\ Extend("actions")
    \/ \E v \in InitialValues : LocalProvider(1, v)
    \/ \E s \in {GlobalStore, 1}, v \in SetValues : Set(s, v)
    \/ \E s \in {GlobalStore, 1}, v \in AssignPartials : Assign(s, v)
    \/ \E s \in {GlobalStore, 1} : \E path \in AccessorPaths(s) : \E v \in ValuesAt(path) :
          InnerSet(s, path, "", v)
    \/ \E s \in {GlobalStore, 1} : \E path \in AccessorPaths(s) : \E fn \in Updaters :
          InnerSet(s, path, fn, Undefined)
    \/ \E s \in {GlobalStore, 1}, name \in {"increment", "decrement"} : CallAction(s, name)
    \/ \E s \in {GlobalStore, 1}, method \in AccessorMethods("computed") :
          CallComputed(s, "doubled", method)

SpecStore == Init /\ [][NextStore]_vars

\* The writes through the global store and through two local stores, with the
\* actions builder registered.
NextLocals ==
    \/ Extend("actions")
    \/ \E p \in Providers : LocalProvider(p, Undefined)
    \/ \E s \in StoreIds, v \in SetValues : Set(s, v)
    \/ \E s \in StoreIds, v \in AssignPartials : Assign(s, v)
    \/ \E s \in StoreIds : \E path \in AccessorPaths(s) : \E v \in ValuesAt(path) :
          InnerSet(s, path, "", v)
    \/ \E s \in StoreIds, name \in {"increment", "decrement"} : CallAction(s, name)

SpecLocals == Init /\ [][NextLocals]_vars

\* The operations on the tree of providers and on the extension registry.
NextProvider ==
    \/ \E b \in Builders : Extend(b)
    \/ \E p \in Providers, v \in InitialValues : LocalProvider(p, v)
    \/ \E c \in Callers : UseLocalStore(c)
    \/ \E v \in SetValues : Set(GlobalStore, v)

SpecProvider == Init /\ [][NextProvider]_vars

(***************************************************************************)
(* The properties.                                                         *)
(***************************************************************************)
\* The state a store instance holds.
StateOf(s) == state[immerStoreApi[s]]

\* The local store instances the providers hold.
LocalStores == {context[p] : p \in {q \in Providers : context[q] # NoStore}}

\* The names and kinds of the members the extensions added to a store.
Surface(s) == [name \in DOMAIN members[s] |-> members[s][name].kind]

\* C1: in every reachable state every local store instance created by
\* LocalProvider exposes the same extension-provided members as the global
\* store, whatever the interleaving of extend calls and renders.
C1_SameSurface == \A s \in LocalStores : Surface(s) = Surface(GlobalStore)

\* C2: a set, an assign or an extension-defined action invoked through a local
\* store instance leaves the state of the global store and of every other
\* local store instance unchanged.
C2_LocalWritesStayLocal ==
    [][\A s \in Providers :
          (last'.op \in {"set", "assign", "innerSet", "action"} /\ last'.store = s)
          => \A t \in StoreIds \ {s} : Live(t) => state'[immerStoreApi'[t]] = StateOf(t)]_vars

C2_Witness ==
    /\ last.op = "action" /\ last.store = 2
    /\ Live(1)
    /\ StateOf(2) # StateOf(1)
    /\ StateOf(2) # StateOf(GlobalStore)
    /\ StateOf(1) # StateOf(GlobalStore)

\* C3: for an object-shaped store, the initial state of the local store that
\* LocalProvider creates with initialValue V has V's value for each property
\* present in V and the global store's initial value (not its current value)
\* for each property absent from V.
C3_LocalInitialState ==
    [][\A p \in Providers : \A v \in InitialValues :
          (isObject(initialState) /\ last'.op = "render" /\ LocalProvider(p, v))
          => /\ state'[immerStoreApi'[p]].t = "object"
             /\ DOMAIN state'[immerStoreApi'[p]].o = DOMAIN initialState.o \cup DOMAIN OwnProps(v)
             /\ \A k \in DOMAIN state'[immerStoreApi'[p]].o :
                   state'[immerStoreApi'[p]].o[k] =
                      IF k \in DOMAIN OwnProps(v) THEN OwnProps(v)[k] ELSE initialState.o[k]]_vars

C3_Witness ==
    /\ last.op = "render"
    /\ isObject(initialState)
    /\ StateOf(last.store).o.count = Num(MaxVal)
    /\ StateOf(last.store).o.parent = initialState.o.parent
    /\ StateOf(GlobalStore).o.parent # initialState.o.parent

\* C4: after assign(partial) on an object-shaped store every property named in
\* partial has the value given in partial and every other property has the
\* value it had before the call.
C4_AssignMerges ==
    [][\A s \in StoreIds : \A partial \in AssignPartials :
          (isObject(initialState) /\ last'.op = "assign" /\ Assign(s, partial))
          => /\ DOMAIN state'[immerStoreApi[s]].o = DOMAIN StateOf(s).o \cup DOMAIN partial.o
             /\ \A k \in DOMAIN state'[immerStoreApi[s]].o :
                   state'[immerStoreApi[s]].o[k] =
                      IF k \in DOMAIN partial.o THEN partial.o[k] ELSE StateOf(s).o[k]]_vars

C4_Witness ==
    /\ last.op = "assign"
    /\ isObject(initialState)
    /\ last.store \in Providers
    /\ StateOf(last.store).o.count # innerInitialState[last.store].o.count
    /\ StateOf(last.store).o.parent # innerInitialState[last.store].o.parent

\* C5: after any sequence of increment and decrement actions on a store with
\* the computed doubled (count * 2), doubled.get() equals 2 * count.get(): the
\* computed value is never stale.
C5_DoubledIsTwiceCount ==
    /\ \A s \in StoreIds :
          (Live(s) /\ "doubled" \in DOMAIN members[s] /\ InnerGet(s, CountPath).t = "number")
          => ComputedGet(s, "doubled") = Num(2 * InnerGet(s, CountPath).n)
    /\ (last.op = "computed" /\ InnerGet(last.store, CountPath).t = "number")
          => last.ret = Num(2 * InnerGet(last.store, CountPath).n)

C5_Witness ==
    /\ last.op = "computed" /\ last.method = "get"
    /\ last.store \in Providers
    /\ "increment" \in DOMAIN members[last.store]
    /\ last.ret = Num(2 * MaxVal)
    /\ InnerGet(GlobalStore, CountPath) = Num(0)

\* C6: a computed accessor exposes only get and use, neither set nor assign,
\* and no operation on a computed accessor changes the state tree.
C6_ComputedReadOnly ==
    [][last'.op = "computed" => (last'.method \in {"get", "use"} /\ state' = state)]_vars

C6_Witness ==
    /\ last.op = "computed" /\ last.method = "use"
    /\ last.ret = Num(2 * MaxVal)

\* C7: useLocalStore returns the store instance of the closest enclosing
\* LocalProvider, and with no LocalProvider above the caller it throws
\* 'useLocalStore must be used within a LocalProvider' and does not return the
\* global store.
C7_UseLocalStore ==
    last.op = "useLocalStore"
    => IF last.caller \in Providers
       THEN last.threw = "" /\ last.store = context[last.caller]
       ELSE /\ last.threw = "useLocalStore must be used within a LocalProvider"
            /\ last.store = NoStore

C7_Witness ==
    /\ last.op = "useLocalStore"
    /\ last.caller = NoProvider
    /\ last.threw # ""
    /\ context[1] # NoStore

\* The paths that neither contain the path P nor are contained in it.
IsPrefix(p, q) == Len(p) <= Len(q) /\ SubSeq(q, 1, Len(p)) = p

Unrelated(p, q) == ~IsPrefix(p, q) /\ ~IsPrefix(q, p)

\* C8: after set(x) on the accessor of a nested path P, P.get() returns x when
\* x is a value and f(previous value) when x is an updater f, and every path
\* that neither contains P nor is contained in P keeps its value.
C8_InnerSet ==
    [][last'.op = "innerSet" => \A s \in {last'.store} : \A P \in AccessorPaths(s) :
          /\ \A x \in ValuesAt(P) :
                InnerSet(s, P, "", x)
                => /\ GetPath(state'[immerStoreApi[s]], P) = x
                   /\ \A Q \in AccessorPaths(s) :
                         Unrelated(P, Q) => GetPath(state'[immerStoreApi[s]], Q) = InnerGet(s, Q)
          /\ InnerSet(s, P, "inc", Undefined)
                => /\ GetPath(state'[immerStoreApi[s]], P) = Num(InnerGet(s, P).n + 1)
                   /\ \A Q \in AccessorPaths(s) :
                         Unrelated(P, Q) => GetPath(state'[immerStoreApi[s]], Q) = InnerGet(s, Q)]_vars

C8_Witness ==
    /\ last.op = "innerSet"
    /\ last.store \in Providers
    /\ isObject(initialState)
    /\ InnerGet(last.store, <<"parent", "count">>) = Num(MaxVal)
    /\ InnerGet(last.store, <<"count">>) = Num(MaxVal)
    /\ StateOf(GlobalStore) = initialState

\* The members of the builders registered before the i-th.
MembersBefore(i, s) == UNION {DOMAIN BuilderMembers(extensions[j], s) : j \in 1..(i - 1)}

\* A log of builder calls made of runs, each in registration order from the
\* first builder on, every builder called with a store that carries the
\* members of the builders registered before it.
InRegistrationOrder(s) ==
    \A k \in DOMAIN applied[s] :
        LET call == applied[s][k]
        IN  /\ call.index \in DOMAIN extensions
            /\ call.builder = extensions[call.index]
            /\ IF k = 1 THEN call.index = 1
               ELSE call.index = 1 \/ call.index = applied[s][k - 1].index + 1
            /\ MembersBefore(call.index, s) \subseteq call.seen

\* C9: the builders are applied in the order they were registered with extend,
\* on the global store and on every local store, and each builder receives a
\* store that already carries the members of every builder registered before.
C9_RegistrationOrder ==
    /\ \A s \in StoreIds : InRegistrationOrder(s)
    /\ applied[GlobalStore] # <<>> =>
          applied[GlobalStore][Len(applied[GlobalStore])].index = Len(extensions)
    /\ \A s \in LocalStores : {applied[s][k].index : k \in DOMAIN applied[s]} = DOMAIN applied[s]

C9_Witness ==
    /\ Len(extensions) = 2
    /\ extensions[1] # extensions[2]
    /\ Len(applied[GlobalStore]) = 3
    /\ \E s \in LocalStores : Len(applied[s]) = 2

\* C10: for a store whose initial state is not an object, a LocalProvider
\* rendered with initialValue uses that value as the local initial state, and
\* one rendered without initialValue falls back to the global initial state.
C10_NonObjectLocalInitialState ==
    [][\A p \in Providers : \A v \in InitialValues \ {Null} :
          (~isObject(initialState) /\ last'.op = "render" /\ LocalProvider(p, v))
          => state'[immerStoreApi'[p]] = IF v = Undefined THEN initialState ELSE v]_vars

\* C11: on a store instance whose initial state is not an object (a primitive
\* or an array), assign(v) leaves the state equal to v, the same state set(v)
\* leaves; an assign whose result differs from that of set(v), a merge, happens
\* only on an instance whose initial state is an object.
C11_AssignReplacesNonObject ==
    [][\A s \in StoreIds : \A v \in AssignPartials :
          (last'.op = "assign" /\ Assign(s, v))
          => /\ ~isObject(innerInitialState[s])
                => /\ state' = setState(s, v)
                   /\ state'[immerStoreApi[s]] = v
             /\ state' # setState(s, v) => isObject(innerInitialState[s])]_vars

C11_Witness ==
    /\ last.op = "assign"
    /\ last.store \in Providers
    /\ ~isObject(innerInitialState[last.store])
    /\ StateOf(last.store) # innerInitialState[last.store]
    /\ StateOf(GlobalStore) = initialState

\* The number of times the builder registered by the i-th extend has been
\* called with the store s.
Invocations(s, i) == Cardinality({k \in DOMAIN applied[s] : applied[s][k].index = i})

\* C12: after n calls to extend, the builder registered by the i-th call has
\* been invoked n - i + 1 times with the global store; a local store that has
\* just been created has invoked each registered builder exactly once, and no
\* local store ever invokes a builder more than once.
C12_BuilderInvocations ==
    /\ \A i \in DOMAIN extensions :
          Invocations(GlobalStore, i) = Len(extensions) - i + 1
    /\ \A s \in LocalStores : \A i \in DOMAIN extensions :
          /\ Invocations(s, i) <= 1
          /\ (last.op = "render" /\ last.store = s) => Invocations(s, i) = 1

C12_Witness ==
    /\ Len(extensions) = MaxExt
    /\ last.op = "render"
    /\ Invocations(GlobalStore, 1) = MaxExt
    /\ Invocations(GlobalStore, MaxExt) = 1
    /\ \A i \in DOMAIN extensions : Invocations(last.store, i) = 1
====
